---- MODULE Spec2Model ----
(***************************************************************************)
(* Event-management backend: the HTTP event routes (routes/events.js) and  *)
(* the Socket.IO connection handler (index.js).                            *)
(*                                                                         *)
(* Every route handler is an async function: each `await` on the Event     *)
(* store is a point where other handlers run.  A handler is therefore a    *)
(* sequence of steps; a step is one store operation together with the      *)
(* synchronous code that consumes its result, up to the next `await`.      *)
(*                                                                         *)
(* Store semantics are Mongoose's: document.save() sends only the delta.   *)
(*   - attendees.push(x)      -> $push x, $inc __v                         *)
(*   - attendees = <array>    -> $set array, where __v = version read,     *)
(*                               $inc __v (VersionError when it differs)   *)
(*   - scalar path assignment -> $set, no version test                     *)
(*   - save() of a document that is no longer stored -> error (500)        *)
(*                                                                         *)
(* Socket.IO semantics: a room is a set of sockets, socket.join is         *)
(* idempotent, and a socket is taken out of all its rooms when it          *)
(* disconnects.  Rooms are named by event ids.                             *)
(*                                                                         *)
(* Environment: the store is available (no outage, so the only 500s are    *)
(* VersionError and DocumentNotFoundError), callers are authenticated,     *)
(* request bodies pass schema validation, and only GET /:id is given       *)
(* malformed ids.  GET / (the list of events) reads the store and changes  *)
(* nothing; it is not modelled.                                            *)
(***************************************************************************)
EXTENDS Integers, Sequences, FiniteSets, TLC

\* ---------------------------------------------------------------- bounds
NumUsers    == 3      \* authenticated users
MaxEvents   == 1      \* events ever created (ids are never reused)
MaxCap      == 2      \* largest capacity a request may carry
NumConns    == 2      \* socket connections
NumSlots    == 2      \* requests in flight at the same time
ExtraRooms  == 1      \* room names a client may send that name no event
MaxRequests == 3      \* requests issued in one run

Users    == 1..NumUsers
EventIds == 1..MaxEvents
Caps     == 1..MaxCap
Conns    == 1..NumConns
Slots    == 1..NumSlots
\* room names: the event ids, and names that are the id of no event
Rooms    == 1..(MaxEvents + ExtraRooms)

\* an id that is not a well-formed ObjectId (findById throws a CastError)
BadId == 0
\* "no user": the creator field of an absent document
NoUser == 0

\* ids GET /:id may name: every well-formed id of the model, and a bad one
\* (the other routes are given well-formed ids)
RequestIds == EventIds \cup {BadId}

\* ------------------------------------------------------------ documents
\* the value findById / findOne yield for a missing document (null)
Absent == [exists |-> FALSE, capacity |-> 0, creator |-> NoUser,
           attendees |-> <<>>, v |-> 0]

\* (variant: the creator is not put among the attendees)
NewEventNoAttendee(capacity, userId) ==
    [exists |-> TRUE, capacity |-> capacity, creator |-> userId,
     attendees |-> <<>>, v |-> 0]

\* the document `new Event({... creator: req.userId, attendees: [req.userId]})`
NewEvent(capacity, userId) ==
    [exists |-> TRUE, capacity |-> capacity, creator |-> userId,
     attendees |-> <<userId>>, v |-> 0]

\* req.body of PUT /:id: one field of the document and its new value
NoPatch == [field |-> "none", num |-> 0, seq |-> <<>>]

\* attendee lists a PUT body may carry: the empty one, and one that names
\* the same user twice
AttendeePatches == {<<>>, <<NumUsers, NumUsers>>}

Patches ==
    {[field |-> "capacity", num |-> c, seq |-> <<>>] : c \in Caps}
    \cup {[field |-> "creator", num |-> u, seq |-> <<>>] : u \in Users}
    \cup {[field |-> "attendees", num |-> 0, seq |-> s] : s \in AttendeePatches}

\* ------------------------------------------------------------- helpers
\* event.attendees.some(attendee => attendee._id.toString() === req.userId)
IsAttendee(ev, userId) == \E i \in 1..Len(ev.attendees) : ev.attendees[i] = userId

\* event.attendees.filter(attendee => attendee._id.toString() !== req.userId)
RECURSIVE Without(_, _)
Without(s, userId) ==
    IF s = <<>> THEN <<>>
    ELSE IF Head(s) = userId THEN Without(Tail(s), userId)
         ELSE <<Head(s)>> \o Without(Tail(s), userId)

\* nothing published
NoPub == [name |-> "none", scope |-> "none", room |-> BadId, to |-> {},
          viewers |-> 0]

\* a request slot that holds no request
Idle == [op |-> "none", pc |-> "idle", user |-> NoUser, id |-> BadId,
         patch |-> NoPatch, ev |-> Absent, status |-> 0, msg |-> "",
         body |-> Absent, pub |-> NoPub]

VARIABLES
    events,        \* Event collection: id -> document (Absent when not stored)
    nextId,        \* the id the next created event gets
    req,           \* slot -> the request it holds and where its handler is
    issued,        \* number of requests issued so far
    last,          \* the request answered most recently, with its response
    live,          \* connected sockets
    rooms,         \* io.sockets.adapter.rooms: room -> set of sockets in it
    viewerUpdate,  \* room -> the last 'viewerUpdate' emitted to it
    signalled,     \* history: rooms a socket asked to join and did not leave
    origin         \* history: id -> creatorId given to create, writes since

vars == <<events, nextId, req, issued, last, live, rooms, viewerUpdate, signalled,
          origin>>


\* no 'viewerUpdate' emitted to the room yet
NoViewerUpdate == [room |-> BadId, viewers |-> 0, to |-> {}]

NoOrigin == [createdBy |-> NoUser, writes |-> 0]

Init ==
    /\ events = [id \in EventIds |-> Absent]
    /\ nextId = 1
    /\ req = [s \in Slots |-> Idle]
    /\ issued = 0
    /\ last = Idle
    /\ live = {}
    /\ rooms = [r \in Rooms |-> {}]
    /\ viewerUpdate = [r \in Rooms |-> NoViewerUpdate]
    /\ signalled = [c \in Conns |-> {}]
    /\ origin = [id \in EventIds |-> NoOrigin]

\* --------------------------------------------------- presence registry
\* io.sockets.adapter.rooms.get(eventId)?.size || 0
Count(room) == Cardinality(rooms[room])

\* io.on('connection'): a new socket; it is in no event room
Connect(c) ==
    /\ c \notin live
    /\ live' = live \cup {c}
    /\ UNCHANGED <<rooms, viewerUpdate, signalled, events, nextId, origin, req, issued, last>>

\* (variant: the room's size is read and emitted before the socket joins)
JoinEventEmitFirst(c, room) ==
    /\ c \in live
    /\ rooms' = [rooms EXCEPT ![room] = @ \cup {c}]
    /\ viewerUpdate' = [viewerUpdate EXCEPT ![room] =
                            [room |-> room,
                             viewers |-> Cardinality(rooms[room]),
                             to |-> rooms[room]]]
    /\ signalled' = [signalled EXCEPT ![c] = @ \cup {room}]
    /\ UNCHANGED <<live, events, nextId, origin, req, issued, last>>

\* (variant: a socket views one event at a time, joining a room leaves the others)
JoinEventMoves(c, room) ==
    /\ c \in live
    /\ rooms' = [r \in Rooms |-> IF r = room THEN rooms[r] \cup {c}
                                           ELSE rooms[r] \ {c}]
    /\ viewerUpdate' = [viewerUpdate EXCEPT ![room] =
                            [room |-> room,
                             viewers |-> Cardinality(rooms'[room]),
                             to |-> rooms'[room]]]
    /\ signalled' = [signalled EXCEPT ![c] = {room}]
    /\ UNCHANGED <<live, events, nextId, origin, req, issued, last>>

\* socket.on('joinEvent'): socket.join, then emit the room's size to the room
JoinEvent(c, room) ==
    /\ c \in live
    /\ rooms' = [rooms EXCEPT ![room] = @ \cup {c}]
    /\ viewerUpdate' = [viewerUpdate EXCEPT ![room] =
                            [room |-> room,
                             viewers |-> Cardinality(rooms'[room]),
                             to |-> rooms'[room]]]
    /\ signalled' = [signalled EXCEPT ![c] = @ \cup {room}]
    /\ UNCHANGED <<live, events, nextId, origin, req, issued, last>>

\* socket.on('leaveEvent'): socket.leave, then emit the room's size to the room
LeaveEvent(c, room) ==
    /\ c \in live
    /\ rooms' = [rooms EXCEPT ![room] = @ \ {c}]
    /\ viewerUpdate' = [viewerUpdate EXCEPT ![room] =
                            [room |-> room,
                             viewers |-> Cardinality(rooms'[room]),
                             to |-> rooms'[room]]]
    /\ signalled' = [signalled EXCEPT ![c] = @ \ {room}]
    /\ UNCHANGED <<live, events, nextId, origin, req, issued, last>>

\* (variant: a disconnected socket stays in its rooms)
LeaveNone(c) == rooms

\* (variant: a disconnected socket is taken out of one of its rooms only)
LeaveAllFirstOnly(c) ==
    [r \in Rooms |->
        IF c \in rooms[r] /\ \A q \in Rooms : q < r => c \notin rooms[q]
        THEN rooms[r] \ {c}
        ELSE rooms[r]]

\* the rooms once socket c has been taken out of every room it is in
LeaveAll(c) == [r \in Rooms |-> rooms[r] \ {c}]

\* (variant: the handler emits the new size to every room the socket was in)
DisconnectRebroadcast(c) ==
    /\ c \in live
    /\ live' = live \ {c}
    /\ rooms' = LeaveAll(c)
    /\ viewerUpdate' = [r \in Rooms |->
                            IF c \in rooms[r]
                            THEN [room |-> r,
                                  viewers |-> Cardinality(rooms'[r]),
                                  to |-> rooms'[r]]
                            ELSE viewerUpdate[r]]
    /\ signalled' = [signalled EXCEPT ![c] = {}]
    /\ UNCHANGED <<events, nextId, origin, req, issued, last>>

\* socket.on('disconnect'): Socket.IO has taken the socket out of all its
\* rooms before the handler runs; the handler only logs (no emit)
Disconnect(c) ==
    /\ c \in live
    /\ live' = live \ {c}
    /\ rooms' = LeaveAll(c)
    /\ signalled' = [signalled EXCEPT ![c] = {}]
    /\ UNCHANGED <<viewerUpdate, events, nextId, origin, req, issued, last>>

\* sockets connect, disconnect, and join and leave the rooms of events
SocketNext ==
    \E c \in Conns :
        \/ Connect(c)
        \/ Disconnect(c)
        \/ \E room \in EventIds : JoinEvent(c, room) \/ LeaveEvent(c, room)

\* the connection handler alone, with every room name a client may send
PresenceNext ==
    \E c \in Conns :
        \/ Connect(c)
        \/ Disconnect(c)
        \/ \E room \in Rooms : JoinEvent(c, room) \/ LeaveEvent(c, room)

\* ------------------------------------------------------------ requests
\* the slot a new request takes: the first free one
FreeSlot(s) ==
    /\ req[s].pc = "idle"
    /\ \A t \in Slots : t < s => req[t].pc # "idle"

\* a request arrives, and one more request may be issued
Begin(s) ==
    /\ FreeSlot(s)
    /\ issued < MaxRequests
    /\ issued' = issued + 1

\* the request as it arrives
Arrive(op, userId, id) == [Idle EXCEPT !.op = op, !.user = userId, !.id = id]

\* the handler awaits its next store operation
Hold(s, r) == req' = [req EXCEPT ![s] = r] /\ UNCHANGED last

\* the handler has answered: r is the request with its response
Finish(s, r) == req' = [req EXCEPT ![s] = Idle] /\ last' = r

\* res.status(status).json(...) of a request that ends in its first step
Reject(s, op, userId, id, ev, status, msg) ==
    Finish(s, [Arrive(op, userId, id) EXCEPT
                   !.pc = "done", !.ev = ev, !.status = status, !.msg = msg])

\* the handler goes on to its next store operation
Goto(s, pc) == Hold(s, [req[s] EXCEPT !.pc = pc])

\* res.status(status).json(...) of a request in flight
Respond(s, status, msg, body, pub) ==
    Finish(s, [req[s] EXCEPT !.pc = "done", !.status = status, !.msg = msg,
                             !.body = body, !.pub = pub])

\* catch (error) { res.status(500).json({ message: 'Server error' }) }
ServerError(s) == Respond(s, 500, "Server error", Absent, NoPub)

\* (variant: the room is not selected, the event goes to every socket)
ToRoomBroadcast(name, id, viewers) ==
    [name |-> name, scope |-> "room", room |-> id, to |-> live,
     viewers |-> viewers]

\* req.app.get('io').to(id).emit(name, payload)
ToRoom(name, id, viewers) ==
    [name |-> name, scope |-> "room", room |-> id, to |-> rooms[id],
     viewers |-> viewers]

\* req.app.get('io').emit(name, payload)
ToAll(name, id) ==
    [name |-> name, scope |-> "all", room |-> id, to |-> live, viewers |-> 0]

\* one more write to document id
Written(id) == [origin EXCEPT ![id].writes = @ + 1]

\* ---- GET /:id
\* (variant: every read of a stored event is recorded in the document)
GetByIdCounting(s, id) ==
    /\ Begin(s)
    /\ IF id = BadId \/ ~events[id].exists
       THEN Reject(s, "get", NoUser, id, Absent, 404, "Event not found")
            /\ UNCHANGED events
       ELSE /\ events' = [events EXCEPT ![id].v = @ + 1]
            /\ Finish(s, [Arrive("get", NoUser, id) EXCEPT
                    !.pc = "done", !.ev = events[id], !.status = 200,
                    !.body = events[id],
                    !.pub = ToRoom("eventUpdated", id, Count(id))])
    /\ UNCHANGED <<nextId, origin, live, rooms, viewerUpdate, signalled>>

GetById(s, id) ==
    /\ Begin(s)
    /\ IF id = BadId \/ ~events[id].exists
       THEN Reject(s, "get", NoUser, id, Absent, 404, "Event not found")
       ELSE Finish(s, [Arrive("get", NoUser, id) EXCEPT
                !.pc = "done", !.ev = events[id], !.status = 200,
                !.body = events[id],
                !.pub = ToRoom("eventUpdated", id, Count(id))])
    /\ UNCHANGED <<events, nextId, origin, live, rooms, viewerUpdate, signalled>>

\* ---- POST /
CreateSave(s, userId, capacity) ==
    /\ Begin(s)
    /\ nextId \in EventIds
    /\ events' = [events EXCEPT ![nextId] = NewEvent(capacity, userId)]
    /\ origin' = [origin EXCEPT ![nextId] = [createdBy |-> userId, writes |-> 0]]
    /\ nextId' = nextId + 1
    /\ Hold(s, [Arrive("create", userId, nextId) EXCEPT !.pc = "refetch"])
    /\ UNCHANGED <<live, rooms, viewerUpdate, signalled>>

CreateRefetch(s) ==
    /\ req[s].op = "create" /\ req[s].pc = "refetch"
    /\ Respond(s, 201, "", events[req[s].id],
               ToAll("eventUpdated", req[s].id))
    /\ UNCHANGED <<events, nextId, origin, issued, live, rooms, viewerUpdate,
                   signalled>>

\* ---- PUT /:id
\* the filter { _id: req.params.id, creator: req.userId } of findOne
UpdateMatch(ev, userId) == ev.exists /\ ev.creator = userId

\* (variant: a caller who is not the creator is told so)
UpdateFindForbidden(s, userId, id, patch) ==
    /\ Begin(s)
    /\ IF ~events[id].exists
       THEN Reject(s, "update", userId, id, Absent, 404,
                   "Event not found or unauthorized")
       ELSE IF events[id].creator # userId
       THEN Reject(s, "update", userId, id, Absent, 403, "Not authorized")
       ELSE Hold(s, [Arrive("update", userId, id) EXCEPT
                        !.pc = "save", !.ev = events[id], !.patch = patch])
    /\ UNCHANGED <<events, nextId, origin, live, rooms, viewerUpdate, signalled>>

UpdateFind(s, userId, id, patch) ==
    /\ Begin(s)
    /\ IF ~UpdateMatch(events[id], userId)
       THEN Reject(s, "update", userId, id, Absent, 404,
                   "Event not found or unauthorized")
       ELSE Hold(s, [Arrive("update", userId, id) EXCEPT
                        !.pc = "save", !.ev = events[id], !.patch = patch])
    /\ UNCHANGED <<events, nextId, origin, live, rooms, viewerUpdate, signalled>>

\* Object.assign(event, req.body)
Assign(ev, patch) ==
    CASE patch.field = "capacity"  -> [ev EXCEPT !.capacity = patch.num]
      [] patch.field = "creator"   -> [ev EXCEPT !.creator = patch.num]
      [] patch.field = "attendees" -> [ev EXCEPT !.attendees = patch.seq]
      [] OTHER -> ev

\* await event.save(); emit; res.json(event): the response is the handler's
\* own copy of the document, not a fresh read
UpdateSave(s) ==
    /\ req[s].op = "update" /\ req[s].pc = "save"
    /\ LET id    == req[s].id
           ev    == req[s].ev
           patch == req[s].patch
           doc   == Assign(ev, patch)
           cur   == events[id]
       IN  IF ~cur.exists
           THEN ServerError(s) /\ UNCHANGED <<events, origin>>
           ELSE IF doc = ev
           THEN /\ Respond(s, 200, "", doc, ToRoom("eventUpdated", id, 0))
                /\ UNCHANGED <<events, origin>>
           ELSE IF patch.field = "attendees"
           THEN IF cur.v # ev.v
                THEN ServerError(s) /\ UNCHANGED <<events, origin>>
                ELSE /\ events' = [events EXCEPT ![id] =
                            [cur EXCEPT !.attendees = doc.attendees,
                                        !.v = @ + 1]]
                     /\ origin' = Written(id)
                     /\ Respond(s, 200, "", [doc EXCEPT !.v = @ + 1],
                                ToRoom("eventUpdated", id, 0))
           ELSE /\ events' = [events EXCEPT ![id] =
                       [cur EXCEPT !.capacity = doc.capacity,
                                   !.creator = doc.creator]]
                /\ origin' = Written(id)
                /\ Respond(s, 200, "", doc, ToRoom("eventUpdated", id, 0))
    /\ UNCHANGED <<nextId, issued, live, rooms, viewerUpdate, signalled>>

\* ---- DELETE /:id
\* (variant: the filter does not name the creator)
DeleteMatchAnyone(ev, userId) == ev.exists

\* the filter { _id: req.params.id, creator: req.userId } of findOneAndDelete
DeleteMatch(ev, userId) == ev.exists /\ ev.creator = userId

DeleteEvent(s, userId, id) ==
    /\ Begin(s)
    /\ IF ~DeleteMatch(events[id], userId)
       THEN Reject(s, "delete", userId, id, Absent, 404,
                   "Event not found or unauthorized")
            /\ UNCHANGED <<events, origin>>
       ELSE /\ events' = [events EXCEPT ![id] = Absent]
            /\ origin' = [origin EXCEPT ![id] = NoOrigin]
            /\ Finish(s, [Arrive("delete", userId, id) EXCEPT
                    !.pc = "done", !.ev = events[id], !.status = 200,
                    !.msg = "Event deleted successfully",
                    !.pub = ToAll("eventDeleted", id)])
    /\ UNCHANGED <<nextId, live, rooms, viewerUpdate, signalled>>

\* ---- POST /:id/join
\* (variant: the capacity test lets one attendee too many in)
JoinCheckOffByOne(ev, userId) ==
    IF IsAttendee(ev, userId) THEN "Already joined this event"
    ELSE IF Len(ev.attendees) > ev.capacity THEN "Event is full"
    ELSE ""

\* (variant: the capacity test comes before the membership test)
JoinCheckFullFirst(ev, userId) ==
    IF Len(ev.attendees) >= ev.capacity THEN "Event is full"
    ELSE IF IsAttendee(ev, userId) THEN "Already joined this event"
    ELSE ""

\* the two tests of the join handler, in the handler's order: the message
\* of the 400 response, or "" when the caller may join
JoinCheck(ev, userId) ==
    IF IsAttendee(ev, userId) THEN "Already joined this event"
    ELSE IF Len(ev.attendees) >= ev.capacity THEN "Event is full"
    ELSE ""

JoinFind(s, userId, id) ==
    /\ Begin(s)
    /\ IF ~events[id].exists
       THEN Reject(s, "join", userId, id, Absent, 404, "Event not found")
       ELSE IF JoinCheck(events[id], userId) # ""
       THEN Reject(s, "join", userId, id, events[id], 400,
                   JoinCheck(events[id], userId))
       ELSE Hold(s, [Arrive("join", userId, id) EXCEPT
                        !.pc = "save", !.ev = events[id]])
    /\ UNCHANGED <<events, nextId, origin, live, rooms, viewerUpdate, signalled>>

\* (variant: save() writes the handler's own copy of the attendee list)
PushedOverwrite(cur, ev, userId) ==
    [cur EXCEPT !.attendees = Append(ev.attendees, userId), !.v = @ + 1]

\* event.attendees.push(req.userId); await event.save(): the stored document
\* cur after the save of a handler that read ev; the push is sent as a
\* $push on the stored list
Pushed(cur, ev, userId) ==
    [cur EXCEPT !.attendees = Append(@, userId), !.v = @ + 1]

JoinSave(s) ==
    /\ req[s].op = "join" /\ req[s].pc = "save"
    /\ LET id  == req[s].id
           cur == events[id]
       IN  IF ~cur.exists
           THEN ServerError(s) /\ UNCHANGED <<events, origin>>
           ELSE /\ events' = [events EXCEPT ![id] =
                       Pushed(cur, req[s].ev, req[s].user)]
                /\ origin' = Written(id)
                /\ Goto(s, "refetch")
    /\ UNCHANGED <<nextId, issued, live, rooms, viewerUpdate, signalled>>

JoinRefetch(s) ==
    /\ req[s].op = "join" /\ req[s].pc = "refetch"
    /\ Respond(s, 200, "", events[req[s].id],
               ToRoom("eventUpdated", req[s].id, 0))
    /\ UNCHANGED <<events, nextId, origin, issued, live, rooms, viewerUpdate,
                   signalled>>

\* ---- POST /:id/leave
\* (variant: the membership test is missing)
LeaveCheckNone(ev, userId) == ""

\* the test of the leave handler: the message of the 400 response, or ""
\* when the caller may leave
LeaveCheck(ev, userId) ==
    IF ~IsAttendee(ev, userId) THEN "Not joined this event" ELSE ""

LeaveFind(s, userId, id) ==
    /\ Begin(s)
    /\ IF ~events[id].exists
       THEN Reject(s, "leave", userId, id, Absent, 404, "Event not found")
       ELSE IF LeaveCheck(events[id], userId) # ""
       THEN Reject(s, "leave", userId, id, events[id], 400,
                   LeaveCheck(events[id], userId))
       ELSE Hold(s, [Arrive("leave", userId, id) EXCEPT
                        !.pc = "save", !.ev = events[id]])
    /\ UNCHANGED <<events, nextId, origin, live, rooms, viewerUpdate, signalled>>

\* event.attendees = event.attendees.filter(...); await event.save()
\* (variant: the filtered list is written whatever has been saved since the read)
LeaveSaveOverwrite(s) ==
    /\ req[s].op = "leave" /\ req[s].pc = "save"
    /\ LET id  == req[s].id
           ev  == req[s].ev
           cur == events[id]
       IN  IF ~cur.exists
           THEN ServerError(s) /\ UNCHANGED <<events, origin>>
           ELSE /\ events' = [events EXCEPT ![id] =
                       [cur EXCEPT !.attendees = Without(ev.attendees, req[s].user),
                                   !.v = @ + 1]]
                /\ origin' = Written(id)
                /\ Goto(s, "refetch")
    /\ UNCHANGED <<nextId, issued, live, rooms, viewerUpdate, signalled>>

\* event.attendees = event.attendees.filter(...); await event.save(): the
\* array is replaced, so the update carries the version read and fails when
\* the document has been saved since
LeaveSave(s) ==
    /\ req[s].op = "leave" /\ req[s].pc = "save"
    /\ LET id  == req[s].id
           ev  == req[s].ev
           cur == events[id]
       IN  IF ~cur.exists \/ cur.v # ev.v
           THEN ServerError(s) /\ UNCHANGED <<events, origin>>
           ELSE /\ events' = [events EXCEPT ![id] =
                       [cur EXCEPT !.attendees = Without(ev.attendees, req[s].user),
                                   !.v = @ + 1]]
                /\ origin' = Written(id)
                /\ Goto(s, "refetch")
    /\ UNCHANGED <<nextId, issued, live, rooms, viewerUpdate, signalled>>

LeaveRefetch(s) ==
    /\ req[s].op = "leave" /\ req[s].pc = "refetch"
    /\ Respond(s, 200, "", events[req[s].id],
               ToRoom("eventUpdated", req[s].id, 0))
    /\ UNCHANGED <<events, nextId, origin, issued, live, rooms, viewerUpdate,
                   signalled>>

\* ------------------------------------------------------- specifications
\* a request arrives and its handler runs up to its first store operation
GetStart    == \E s \in Slots, id \in RequestIds : GetById(s, id)
CreateStart == \E s \in Slots, u \in Users, c \in Caps : CreateSave(s, u, c)
UpdateStart == \E s \in Slots, u \in Users, id \in EventIds, p \in Patches :
                   UpdateFind(s, u, id, p)
DeleteStart == \E s \in Slots, u \in Users, id \in EventIds :
                   DeleteEvent(s, u, id)
JoinStart   == \E s \in Slots, u \in Users, id \in EventIds :
                   JoinFind(s, u, id)
LeaveStart  == \E s \in Slots, u \in Users, id \in EventIds :
                   LeaveFind(s, u, id)

\* a handler in flight takes its next step
CreateStep == \E s \in Slots : CreateRefetch(s)
UpdateStep == \E s \in Slots : UpdateSave(s)
JoinStep   == \E s \in Slots : JoinSave(s) \/ JoinRefetch(s)
LeaveStep  == \E s \in Slots : LeaveSave(s) \/ LeaveRefetch(s)

StartNext ==
    \/ GetStart \/ CreateStart \/ UpdateStart
    \/ DeleteStart \/ JoinStart \/ LeaveStart

StepNext == CreateStep \/ UpdateStep \/ JoinStep \/ LeaveStep

Next == StartNext \/ StepNext \/ SocketNext

Spec == Init /\ [][Next]_vars

\* no request is in flight
Quiet == \A s \in Slots : req[s].pc \in {"idle", "done"}

\* requests are handled one at a time: one arrives only when none is in flight
NextSeq == (Quiet /\ StartNext) \/ StepNext \/ SocketNext

SpecSeq == Init /\ [][NextSeq]_vars

\* only create, join and leave requests are issued
NextCJL ==
    \/ CreateStart \/ JoinStart \/ LeaveStart
    \/ CreateStep \/ JoinStep \/ LeaveStep
    \/ SocketNext

SpecCJL == Init /\ [][NextCJL]_vars

SpecPresence == Init /\ [][PresenceNext]_vars
\* ---------------------------------------------------------- properties
\* this step is the arrival of request op(id) by userId: the handler either
\* answers at once (the slot stays free) or awaits its store operation
Arrives(op, userId, id) ==
    /\ issued' = issued + 1
    /\ \/ req' = req /\ last'.op = op /\ last'.user = userId /\ last'.id = id
       \/ \E s \in Slots :
            /\ req[s].pc = "idle"
            /\ req'[s].op = op /\ req'[s].user = userId /\ req'[s].id = id

\* this step answers a request
Answers ==
    \/ issued' = issued + 1 /\ req' = req
    \/ \E s \in Slots : req[s].pc # "idle" /\ req'[s].pc = "idle"

\* C1: with requests handled one at a time, a join by a user who is not an
\* attendee succeeds (200) exactly when the event has fewer attendees than
\* its capacity, and then the stored list is the list read with the user
\* appended; when the list is as long as the capacity the join is answered
\* 400 "Event is full" and the stored event is unchanged.
JoinOneAtATime ==
    [][(/\ Answers
        /\ last'.op = "join"
        /\ last'.ev.exists
        /\ ~IsAttendee(last'.ev, last'.user))
       => LET ev == last'.ev
              id == last'.id
          IN  /\ (last'.status = 200) <=> (Len(ev.attendees) < ev.capacity)
              /\ last'.status = 200 =>
                    /\ events'[id].attendees = Append(ev.attendees, last'.user)
                    /\ last'.body = events'[id]
              /\ Len(ev.attendees) = ev.capacity =>
                    /\ last'.status = 400
                    /\ last'.msg = "Event is full"
                    /\ events' = events
                    /\ events[id] = ev]_vars

\* C1 witness: capacity 2, the creator is attendee 1, a second user has
\* joined, and a third user's join has just been answered "Event is full".
JoinOneAtATimeSeen ==
    /\ last.op = "join" /\ last.status = 400 /\ last.msg = "Event is full"
    /\ last.ev.capacity = 2
    /\ events[last.id] = last.ev
    /\ Len(last.ev.attendees) = 2
    /\ last.ev.attendees[1] = last.ev.creator
    /\ last.ev.attendees[2] # last.ev.creator
    /\ ~IsAttendee(last.ev, last.user)
    /\ origin[last.id].writes = 1

\* C2 (as claimed): no stored event has more attendees than its capacity,
\* whatever create, join and leave requests are issued and however they
\* overlap.
AttendeesWithinCapacity ==
    \A id \in EventIds :
        events[id].exists => Len(events[id].attendees) <= events[id].capacity

\* joins that have saved: in flight after their save, or answered 200 last
SavedJoins ==
    {req[s] : s \in {x \in Slots : req[x].op = "join" /\ req[x].pc = "refetch"}}
    \cup (IF last.op = "join" /\ last.status = 200 THEN {last} ELSE {})

\* C3: two joins of one event by distinct users that both read the same
\* stored document, with one place left, both pass the capacity test and
\* both save; once both have saved (and nothing else has written the
\* attendee list) the event holds both users and capacity + 1 attendees.
OverlappingJoinsOverfill ==
    \A a \in SavedJoins : \A b \in SavedJoins :
        (/\ a.id = b.id /\ a.user # b.user
         /\ a.ev = b.ev
         /\ Len(a.ev.attendees) = a.ev.capacity - 1
         /\ events[a.id].exists
         /\ events[a.id].v = a.ev.v + 2)
        => /\ Len(events[a.id].attendees) = a.ev.capacity + 1
           /\ IsAttendee(events[a.id], a.user)
           /\ IsAttendee(events[a.id], b.user)

\* C3 witness: create and two joins were issued and all are answered; the
\* join answered last read capacity - 1 attendees and returns capacity + 1.
OverlappingJoinsOverfillSeen ==
    /\ Quiet /\ issued = 3
    /\ last.op = "join" /\ last.status = 200
    /\ origin[last.id].writes = 2
    /\ Len(last.ev.attendees) = last.ev.capacity - 1
    /\ last.body.capacity = last.ev.capacity
    /\ Len(last.body.attendees) = last.body.capacity + 1
    /\ events[last.id] = last.body

\* C4 (as claimed): no attendee list names a user twice.
NoDuplicateAttendees ==
    \A id \in EventIds :
        \A i, j \in 1..Len(events[id].attendees) :
            events[id].attendees[i] = events[id].attendees[j] => i = j

\* C5 (as claimed): the creator of a stored event is the creatorId given to
\* the create request that made it.
CreatorNeverChanges ==
    \A id \in EventIds :
        events[id].exists => events[id].creator = origin[id].createdBy

\* C6: a join by a user who is among the attendees of the stored event is
\* answered 400 "Already joined this event" at once, whether or not the
\* event is full; the stored events are unchanged and nothing is published.
AlreadyJoinedRejected ==
    [][\A u \in Users, id \in EventIds :
        (/\ Arrives("join", u, id)
         /\ events[id].exists
         /\ IsAttendee(events[id], u))
        => /\ req' = req
           /\ last'.status = 400
           /\ last'.msg = "Already joined this event"
           /\ last'.pub = NoPub
           /\ events' = events]_vars

\* C6 witness: a user who joined a now full event joins again and is
\* answered "Already joined this event", not "Event is full".
AlreadyJoinedRejectedSeen ==
    /\ last.op = "join" /\ last.status = 400
    /\ last.msg = "Already joined this event"
    /\ last.user # origin[last.id].createdBy
    /\ IsAttendee(events[last.id], last.user)
    /\ Len(events[last.id].attendees) >= events[last.id].capacity
    /\ events[last.id] = last.ev
    /\ last.pub = NoPub

\* C7: a leave by a user who is not among the attendees of the stored event
\* is answered 400 "Not joined this event" at once; the stored events are
\* unchanged and nothing is published.
NotJoinedRejected ==
    [][\A u \in Users, id \in EventIds :
        (/\ Arrives("leave", u, id)
         /\ events[id].exists
         /\ ~IsAttendee(events[id], u))
        => /\ req' = req
           /\ last'.status = 400
           /\ last'.msg = "Not joined this event"
           /\ last'.pub = NoPub
           /\ events' = events]_vars

\* C7 witness: a leave has been answered "Not joined this event" and the
\* event is stored as the handler read it.
NotJoinedRejectedSeen ==
    /\ last.op = "leave" /\ last.status = 400
    /\ last.msg = "Not joined this event"
    /\ events[last.id].exists
    /\ events[last.id] = last.ev
    /\ ~IsAttendee(events[last.id], last.user)
    /\ last.pub = NoPub

\* C8: a delete of a stored event by a user who is not its creator is
\* answered 404, removes nothing and publishes nothing; and a getById of a
\* stored event is answered 200 with the stored document.
DeleteByOtherRejected ==
    [][\A id \in EventIds :
        /\ \A u \in Users :
            (/\ Arrives("delete", u, id)
             /\ events[id].exists
             /\ events[id].creator # u)
            => /\ req' = req
               /\ last'.status = 404
               /\ last'.pub = NoPub
               /\ events' = events
        /\ (Arrives("get", NoUser, id) /\ events[id].exists)
            => /\ last'.status = 200
               /\ last'.body = events[id]
               /\ events' = events]_vars

\* C8 witness: a delete by a user other than the creator has been answered
\* 404 and the event is still stored.
DeleteByOtherRejectedSeen ==
    /\ last.op = "delete" /\ last.status = 404
    /\ last.pub = NoPub
    /\ events[last.id].exists
    /\ events[last.id].creator # last.user

\* C9: a getById of an event that no request has written since its create
\* returns the creatorId given to create as creator, and as the only
\* attendee.
CreateThenGet ==
    [][\A id \in EventIds :
        (/\ Arrives("get", NoUser, id)
         /\ events[id].exists
         /\ origin[id].writes = 0)
        => /\ last'.status = 200
           /\ last'.body.creator = origin[id].createdBy
           /\ last'.body.attendees = <<origin[id].createdBy>>]_vars

\* C9 witness: a getById has returned a never written event.
CreateThenGetSeen ==
    /\ last.op = "get" /\ last.status = 200
    /\ origin[last.id].writes = 0
    /\ last.body.creator = origin[last.id].createdBy
    /\ last.body.creator \in Users
    /\ last.body.attendees = <<last.body.creator>>

\* C10: the size of a room is the number of connected sockets that asked to
\* join it and have neither left it nor disconnected since.
CountIsSubscribers ==
    \A room \in EventIds :
        Count(room) =
            Cardinality({c \in live : room \in signalled[c]})

\* C10 witness: the last viewerUpdate told the one socket left in the room
\* that the room had 1 viewer; that socket has disconnected without leaving,
\* another socket is connected, and the room's size is 0.
CountIsSubscribersSeen ==
    \E room \in EventIds : \E c \in Conns :
        /\ viewerUpdate[room] = [room |-> room, viewers |-> 1, to |-> {c}]
        /\ c \notin live
        /\ live # {}
        /\ Count(room) = 0

\* C11: a getById changes neither the stored events nor the rooms nor the
\* set of connected sockets, whether it is answered 200 or 404; what it
\* returns for a stored event is that event with the room's size.
GetByIdReadsOnly ==
    [][\A id \in RequestIds :
        Arrives("get", NoUser, id)
        => /\ events' = events
           /\ nextId' = nextId
           /\ rooms' = rooms
           /\ live' = live
           /\ viewerUpdate' = viewerUpdate
           /\ (id \in EventIds /\ events[id].exists)
                => /\ last'.body = events[id]
                   /\ last'.pub.viewers = Count(id)]_vars

\* C11 witness: a getById has been answered 200 for an event that some
\* request wrote after its create, a socket is in the event's room, and the
\* event is stored as returned.
GetByIdReadsOnlySeen ==
    /\ last.op = "get" /\ last.status = 200
    /\ origin[last.id].writes > 0
    /\ events[last.id] = last.body
    /\ last.pub.viewers = 1
    /\ Count(last.id) = 1

\* the 404 answer of update and delete, to userId for id
NotFoundOrUnauthorized(op, userId, id) ==
    [Idle EXCEPT !.op = op, !.user = userId, !.id = id, !.pc = "done",
                 !.status = 404, !.msg = "Event not found or unauthorized"]

\* C12: an update or a delete by a caller who is not the creator of the
\* stored event gets the very answer it gets when no event is stored under
\* the id (404, same message, no document), and in both cases the stored
\* events are unchanged and nothing is published.
NonCreatorSeesNotFound ==
    [][\A u \in Users, id \in EventIds :
        \A op \in {"update", "delete"} :
            (/\ Arrives(op, u, id)
             /\ (~events[id].exists \/ events[id].creator # u))
            => /\ req' = req
               /\ last' = NotFoundOrUnauthorized(op, u, id)
               /\ events' = events]_vars

\* C12 witness: an update by a user other than the creator of a stored
\* event has been answered 404 and the event is still stored.
NonCreatorSeesNotFoundSeen ==
    /\ last.op = "update" /\ last.status = 404
    /\ last = NotFoundOrUnauthorized("update", last.user, last.id)
    /\ events[last.id].exists
    /\ events[last.id].creator # last.user
    /\ origin[last.id].writes = 0

\* C13: the viewerUpdate of a joinEvent and of a leaveEvent carries the size
\* of the room after the socket was added or removed: after a join the count
\* includes the joiner and the joiner is a recipient; after a leave the count
\* excludes the leaver and the leaver is not a recipient.
ViewerUpdateAfterMutation ==
    [][\A c \in Conns, room \in Rooms :
        /\ JoinEvent(c, room)
             => /\ c \in rooms'[room]
                /\ viewerUpdate'[room].room = room
                /\ viewerUpdate'[room].viewers = Cardinality(rooms[room] \cup {c})
                /\ viewerUpdate'[room].to = rooms[room] \cup {c}
        /\ LeaveEvent(c, room)
             => /\ c \notin rooms'[room]
                /\ viewerUpdate'[room].room = room
                /\ viewerUpdate'[room].viewers = Cardinality(rooms[room] \ {c})
                /\ viewerUpdate'[room].to = rooms[room] \ {c}]_vars

\* C13 witness: one room's last viewerUpdate counted two sockets and went to
\* both (the second join), another room's last viewerUpdate counted none and
\* went to nobody (a leave), with both sockets still connected.
ViewerUpdateAfterMutationSeen ==
    \E r1, r2 \in Rooms :
        /\ r1 # r2
        /\ live = Conns
        /\ rooms[r1] = Conns
        /\ viewerUpdate[r1] = [room |-> r1, viewers |-> Cardinality(Conns),
                               to |-> Conns]
        /\ rooms[r2] = {}
        /\ viewerUpdate[r2] = [room |-> r2, viewers |-> 0, to |-> {}]

\* C14: when a socket disconnects it is taken out of every room, the other
\* sockets stay in exactly the rooms they were in, and no viewerUpdate is
\* emitted for any room.
DisconnectLeavesEveryRoom ==
    [][\A c \in Conns :
        (c \in live /\ c \notin live')
        => /\ \A r \in Rooms : rooms'[r] = rooms[r] \ {c}
           /\ viewerUpdate' = viewerUpdate]_vars

\* C14 witness: a socket that was in two rooms with another socket (the last
\* viewerUpdate of both rooms went to the two of them) has disconnected; it
\* is in neither room, the other socket is in both.
DisconnectLeavesEveryRoomSeen ==
    \E c, d \in Conns : \E r1, r2 \in Rooms :
        /\ c # d /\ r1 # r2
        /\ c \notin live /\ d \in live
        /\ viewerUpdate[r1] = [room |-> r1, viewers |-> 2, to |-> {c, d}]
        /\ viewerUpdate[r2] = [room |-> r2, viewers |-> 2, to |-> {c, d}]
        /\ rooms[r1] = {d} /\ rooms[r2] = {d}

\* C17: a joinEvent by a socket already in the room leaves the room's
\* members and size as they were; a leaveEvent by a socket not in the room
\* leaves every room as it was; and a joinEvent or leaveEvent for one room
\* changes no socket's membership of any other room.
PresenceIdempotent ==
    [][\A c \in Conns, room \in Rooms :
        /\ (JoinEvent(c, room) /\ c \in rooms[room])
             => /\ rooms' = rooms
                /\ Cardinality(rooms'[room]) = Count(room)
        /\ (LeaveEvent(c, room) /\ c \notin rooms[room])
             => rooms' = rooms
        /\ (JoinEvent(c, room) \/ LeaveEvent(c, room))
             => \A r \in Rooms \ {room} : rooms'[r] = rooms[r]]_vars

\* C17 witness: a socket is in two rooms at once, the last viewerUpdate of
\* each went to it alone, and the other socket is connected and in no room.
PresenceIdempotentSeen ==
    \E c, d \in Conns : \E r1, r2 \in Rooms :
        /\ c # d /\ r1 # r2
        /\ d \in live /\ \A r \in Rooms : d \notin rooms[r]
        /\ rooms[r1] = {c} /\ rooms[r2] = {c}
        /\ viewerUpdate[r1] = [room |-> r1, viewers |-> 1, to |-> {c}]
        /\ viewerUpdate[r2] = [room |-> r2, viewers |-> 1, to |-> {c}]

\* socket c is in the room, the room's last viewerUpdate went to c, and it
\* carried a count larger than the room's size now
StaleFor(c, room) ==
    /\ c \in rooms[room]
    /\ c \in viewerUpdate[room].to
    /\ viewerUpdate[room].viewers > Count(room)

\* C19: the count last emitted to a room can be stale after a disconnect:
\* when a socket of a room disconnects, every socket that stays in the room
\* has received, as the room's last viewerUpdate, a count larger than the
\* room's size; and a socket in that situation stays in it for as long as it
\* is connected and no joinEvent or leaveEvent names the room.
StaleUntilNextSignal ==
    [][\A c \in Conns, room \in Rooms :
        /\ \A d \in Conns \ {c} :
              (/\ d \in live /\ d \notin live'
               /\ d \in rooms[room] /\ c \in rooms[room])
              => StaleFor(c, room)'
        /\ (/\ StaleFor(c, room)
            /\ c \in live'
            /\ ~ \E d \in Conns : JoinEvent(d, room) \/ LeaveEvent(d, room))
           => StaleFor(c, room)']_vars

\* C19 witness: a socket is in a room whose size is 1 and the last
\* viewerUpdate it received for the room said 2; the other socket has
\* disconnected.
StaleUntilNextSignalSeen ==
    \E c \in Conns, room \in Rooms :
        /\ StaleFor(c, room)
        /\ rooms[room] = {c}
        /\ viewerUpdate[room].viewers = 2
        /\ live = {c}

\* C15: the eventUpdated of a successful getById, update, join or leave on an
\* event goes to exactly the sockets in the event's room when it is emitted
\* (to none when the room is empty); the eventUpdated of a successful create
\* and the eventDeleted of a successful delete go to every connected socket;
\* a request that fails emits nothing.
BroadcastScope ==
    [][Answers =>
        /\ last'.status \notin {200, 201} => last'.pub = NoPub
        /\ (last'.status = 200 /\ last'.op \in {"get", "update", "join", "leave"})
             => /\ last'.pub.name = "eventUpdated"
                /\ last'.pub.room = last'.id
                /\ last'.pub.to = rooms[last'.id]
        /\ (last'.status = 201 /\ last'.op = "create")
             => /\ last'.pub.name = "eventUpdated"
                /\ last'.pub.to = live
        /\ (last'.status = 200 /\ last'.op = "delete")
             => /\ last'.pub.name = "eventDeleted"
                /\ last'.pub.room = last'.id
                /\ last'.pub.to = live]_vars

\* C15 witness: a join has succeeded while two sockets were connected and
\* one of them was in the event's room; its eventUpdated went to that one.
BroadcastScopeSeen ==
    \E c \in Conns :
        /\ last.op = "join" /\ last.status = 200
        /\ live = Conns
        /\ rooms[last.id] = {c}
        /\ last.pub.name = "eventUpdated"
        /\ last.pub.to = {c}

\* C16 (as claimed): the save of a leave by user u removes exactly u: the
\* other attendees are all still there, in the order they were in, and the
\* list is shorter by exactly one.
LeaveRemovesExactlyOne ==
    [][\A s \in Slots :
        (/\ req[s].op = "leave" /\ req[s].pc = "save"
         /\ req'[s].pc = "refetch")
        => LET u      == req[s].user
               before == events[req[s].id].attendees
               after  == events'[req[s].id].attendees
           IN  /\ Without(after, u) = Without(before, u)
               /\ Len(after) = Len(before) - 1]_vars

====
